---- MODULE Spec2Model ----
(***************************************************************************)
(* Time-bounded alpha-beta search for 2048 (MinMaxABMO2.py and its two     *)
(* copies kept in LearningAgent.py), driven by run_game of Runner.py.      *)
(*                                                                         *)
(* A board is a sequence of 16 tile exponents (0 = empty); the code's      *)
(* index i is position i+1 here.  A game state is [board, score].          *)
(* Search values are floats in the code; here every value is the exact     *)
(* rational value times 4096000, kept as two limbs <<hi, lo>> with         *)
(* value * 4096000 = hi * Limb + lo, 0 <= lo < Limb, so that products stay *)
(* inside 32-bit integers.  Values are only ever compared.                 *)
(***************************************************************************)
EXTENDS Integers, Sequences, FiniteSets, TLC

\* ------------------------------------------------------------------ bounds
\* The deadline is forced to have expired once this many depth iterations
\* of one findMove call were started.
MaxDepth == 3
\* Number of findMove calls one run makes at most.
MaxCalls == 2

\* ------------------------------------------------------------------- state
VARIABLES
    variant,      \* which Player class load_agent instantiated
    caller,       \* "run_game" (Runner.py), or findMove called as an API
    state,        \* the game state the caller holds
    pc,           \* position of the caller / of findMove
    expired,      \* FALSE while timeRemaining() answers True for this call
    late,         \* the deadline passed after the last timeRemaining() answer
    facade,       \* "strict": actions() lists only board-changing directions
    _move,        \* BasePlayer._move, read by getMove()
    _nodeCount, _parentCount, _childCount, _depthCount, _count, _pruneCount,
    fm,           \* locals of findMove
    stack,        \* activation records of maxPlayer / minPlayer, innermost last
    ret,          \* value handed back by the call that just returned
    obs,          \* observation of the run (history, not program state)
    probe         \* the states handed to the evaluator when it is run on its own

vars == <<probe, facade, variant, caller, state, pc, expired, late, _move, _nodeCount,
          _parentCount, _childCount, _depthCount, _count, _pruneCount, fm, stack, ret, obs>>

counters == <<_nodeCount, _parentCount, _childCount, _depthCount, _count, _pruneCount>>

\* -------------------------------------------------------- game state facade
Cells == 1..16

RECURSIVE Pow2(_)
Pow2(k) == IF k = 0 THEN 1 ELSE 2 * Pow2(k - 1)

RECURSIVE SumSeq(_)
SumSeq(q) == IF q = <<>> THEN 0 ELSE Head(q) + SumSeq(Tail(q))

MaxOfBoard(board) == CHOOSE m \in {board[i] : i \in Cells} : \A i \in Cells : board[i] <= m

EmptyCount(board) == Cardinality({i \in Cells : board[i] = 0})

\* Tiles of one line after sliding towards its front: equal neighbours merge once.
RECURSIVE MergeLine(_)
MergeLine(nz) ==
    IF Len(nz) < 2 THEN nz
    ELSE IF nz[1] = nz[2] THEN <<nz[1] + 1>> \o MergeLine(Tail(Tail(nz)))
    ELSE <<nz[1]>> \o MergeLine(Tail(nz))

\* Score gained by the merges of one line: the value of every tile created.
RECURSIVE MergeGain(_)
MergeGain(nz) ==
    IF Len(nz) < 2 THEN 0
    ELSE IF nz[1] = nz[2] THEN Pow2(nz[1] + 1) + MergeGain(Tail(Tail(nz)))
    ELSE MergeGain(Tail(nz))

NonZero(line) == SelectSeq(line, LAMBDA x : x # 0)

SlideLine(line) ==
    LET m == MergeLine(NonZero(line))
    IN  [j \in 1..4 |-> IF j <= Len(m) THEN m[j] ELSE 0]

\* The four lines of the board for a direction, each listed from the side the
\* tiles slide to: cell number of place j of line k.
LineCell(a, k, j) ==
    CASE a = "L" -> 4 * (k - 1) + j
      [] a = "R" -> 4 * (k - 1) + (5 - j)
      [] a = "U" -> 4 * (j - 1) + k
      [] a = "D" -> 4 * (4 - j) + k

LineOf(board, a, k) == [j \in 1..4 |-> board[LineCell(a, k, j)]]

RowOf(c) == ((c - 1) \div 4) + 1
ColOf(c) == ((c - 1) % 4) + 1

\* The line of cell c for direction a, and its place in that line.
LineIdx(a, c) == IF a \in {"L", "R"} THEN RowOf(c) ELSE ColOf(c)
PlaceIdx(a, c) ==
    CASE a = "L" -> ColOf(c)
      [] a = "R" -> 5 - ColOf(c)
      [] a = "U" -> RowOf(c)
      [] a = "D" -> 5 - RowOf(c)

\* state.move(a): slide and merge, add the merge gains to the score, no new tile.
move(s, a) ==
    LET slid == [k \in 1..4 |-> SlideLine(LineOf(s.board, a, k))]
        gain == [k \in 1..4 |-> MergeGain(NonZero(LineOf(s.board, a, k)))]
    IN  [board |-> [c \in Cells |-> slid[LineIdx(a, c)][PlaceIdx(a, c)]],
         score |-> s.score + gain[1] + gain[2] + gain[3] + gain[4]]

\* Enumeration order of the facade's actions.
AllActions == <<"U", "D", "L", "R">>

\* state.actions(): the directions that change the board.  A facade that
\* breaks this contract ("loose") lists all four directions.
actions(s) ==
    SelectSeq(AllActions, LAMBDA a : facade = "loose" \/ move(s, a).board # s.board)

\* state.gameOver(): no direction changes the board.
gameOver(s) == \A k \in 1..4 : move(s, AllActions[k]).board = s.board

getScore(s) == s.score

\* state.possibleTiles(): every empty cell with a 2 (exponent 1) and a 4 (exponent 2).
RECURSIVE TilesFrom(_, _)
TilesFrom(board, c) ==
    IF c > 16 THEN <<>>
    ELSE (IF board[c] = 0 THEN << <<c, 1>>, <<c, 2>> >> ELSE <<>>)
         \o TilesFrom(board, c + 1)

possibleTiles(s) == TilesFrom(s.board, 1)

\* state.addTile(t, v)
addTile(s, t, v) == [s EXCEPT !.board[t] = v]

\* ------------------------------------------------------------ search values
\* value * 4096000 = hi * Limb + lo; an integer n is <<n * Milli, 0>>.
Limb == 4096
Milli == 1000

IntVal(n) == <<n * Milli, 0>>

VLt(x, y) == x[1] < y[1] \/ (x[1] = y[1] /\ x[2] < y[2])
VLe(x, y) == ~VLt(y, x)
VMax(x, y) == IF VLt(x, y) THEN y ELSE x
VMin(x, y) == IF VLt(y, x) THEN y ELSE x

\* float('inf') and -float('inf')
PosInf == <<2000000000, 0>>
NegInf == <<-2000000000, 0>>
\* best = -10000 (root, maxPlayer) and best = 1e6 (minPlayer)
MaxInit == IntVal(-10000)
MinInit == IntVal(1000000)

\* base * m / 4096000 as a value, for 0 <= base and 0 <= m.
ScaledProduct(base, m) ==
    LET mh == m \div Limb
        ml == m % Limb
    IN  <<base * mh + ((base * ml) \div Limb), (base * ml) % Limb>>

\* ------------------------------------------------- MinMaxABMO2.py evaluator
\* tile_weights times 20 (moveOrder and tile_gradient_score use the same table).
tile_weights20 ==
    <<80, 60, 40, 20,
      60, 20, 30, 20,
      40, 30, 20, 10,
      20, 10,  5,  2>>

\* 20 * sum(board[i] * tile_weights[i])
gradient_score20(board) == SumSeq([i \in Cells |-> board[i] * tile_weights20[i]])

\* anchor_penalty: 1 if the top-left cell holds a maximum tile, else 0.
anchor_penalty(s) == IF s.board[1] = MaxOfBoard(s.board) THEN 1 ELSE 0

\* Length of the chain counted by one loop of monotonic_chain_score along the
\* cells line[1], line[2], ...: starts at 1, grows while the next cell is
\* nonzero and not larger, stops at the first failure.
RECURSIVE ChainLen(_, _, _)
ChainLen(board, line, i) ==
    IF i > 3 THEN 1
    ELSE IF board[line[i]] >= board[line[i + 1]] /\ board[line[i + 1]] > 0
         THEN 1 + ChainLen(board, line, i + 1)
         ELSE 1

\* 4 * monotonic_chain_score
monotonic_chain_score4(s) ==
    LET row == ChainLen(s.board, <<1, 2, 3, 4>>, 1)
        col == ChainLen(s.board, <<1, 5, 9, 13>>, 1)
    IN  IF row >= col THEN row ELSE col

\* 20 * improved_corner_score = 20 * (0.8 * anchor + 0.2 * chain / 4)
improved_corner_score20(s) == 16 * anchor_penalty(s) + monotonic_chain_score4(s)

\* 163840 * tile_gradient_score = min(163840, 20 * weighted_sum)
tile_gradient_score163840(s) ==
    LET w == gradient_score20(s.board)
    IN  IF w < 163840 THEN w ELSE 163840

\* EMPTY_TILE_PCT in thousandths, chosen by the number of filled cells.
EmptyTilePct(filled) ==
    IF filled >= 12 THEN 20 ELSE IF filled >= 8 THEN 18 ELSE 15

\* The early-game bonus of lines 188-191, in hundredths of the score.
TopLeftBonusPct(s) ==
    IF s.score < 1000 /\ s.board[1] = MaxOfBoard(s.board) THEN 3
    ELSE IF s.score < 2000 /\ s.board[1] = MaxOfBoard(s.board) THEN 2
    ELSE 0

\* The terms of heuristic, each as the factor that multiplies base_score,
\* times 4096000.
CornerTerm(s) == 11 * 10240 * improved_corner_score20(s)
EmptyTerm(s) ==
    LET empty_tiles == EmptyCount(s.board)
    IN  Limb * EmptyTilePct(16 - empty_tiles) * empty_tiles
GradientTerm(s) == 3 * tile_gradient_score163840(s)
TopLeftTerm(s) == 40960 * TopLeftBonusPct(s)

heuristic_main(s) ==
    ScaledProduct(getScore(s),
                  Limb * Milli + CornerTerm(s) + EmptyTerm(s) + GradientTerm(s)
                  + TopLeftTerm(s))

\* ----------------------------------------- evaluators of the two older copies
\* board.index(max(board)): the first cell holding a maximum tile.
MaxIdx(board) ==
    CHOOSE i \in Cells : /\ board[i] = MaxOfBoard(board)
                         /\ \A j \in 1..(i - 1) : board[j] # board[i]

Corners == {1, 4, 13, 16}

\* The two cells next to a corner, and the cell diagonal to it.
Adjacent(corner) ==
    CASE corner = 1 -> <<2, 5>>
      [] corner = 4 -> <<3, 8>>
      [] corner = 13 -> <<9, 14>>
      [] corner = 16 -> <<12, 15>>

Diag(corner) ==
    CASE corner = 1 -> 6
      [] corner = 4 -> 7
      [] corner = 13 -> 10
      [] corner = 16 -> 11

\* +5 for each cell next to the corner that is nonzero and not larger.
AdjacentBonus(board, corner) ==
    SumSeq([k \in 1..2 |->
              IF board[Adjacent(corner)[k]] > 0
                 /\ board[Adjacent(corner)[k]] <= board[corner]
              THEN 5 ELSE 0])

\* corner_anchoring of "MinMaxABMO2 copy 2"
corner_anchoring_copy2(s) ==
    LET max_idx == MaxIdx(s.board)
    IN  IF max_idx \notin Corners THEN 0
        ELSE 10 + AdjacentBonus(s.board, max_idx)

\* row_pattern / col_pattern of "MinMaxABMO2 copy": +2 per non-increasing step
\* that starts at a nonzero cell.
Pattern(board, line) ==
    SumSeq([k \in 1..3 |->
              IF board[line[k]] >= board[line[k + 1]] /\ board[line[k]] > 0
              THEN 2 ELSE 0])

corner_weights(corner) ==
    CASE corner = 1 -> 15
      [] corner = 4 -> 10
      [] corner = 13 -> 10
      [] corner = 16 -> 5

\* corner_anchoring of "MinMaxABMO2 copy"
corner_anchoring_copy(s) ==
    LET b == s.board
        max_idx == MaxIdx(b)
        adj == Adjacent(max_idx)
        lower == IF b[adj[1]] <= b[adj[2]] THEN b[adj[1]] ELSE b[adj[2]]
    IN  IF max_idx \notin Corners THEN 0
        ELSE corner_weights(max_idx)
             + (IF max_idx = 1
                THEN Pattern(b, <<1, 2, 3, 4>>) + Pattern(b, <<1, 5, 9, 13>>)
                ELSE 0)
             + AdjacentBonus(b, max_idx)
             + (IF b[Diag(max_idx)] > 0 /\ b[Diag(max_idx)] <= lower THEN 3 ELSE 0)

\* empty_weight of "MinMaxABMO2 copy"
EmptyWeight(filled) ==
    IF filled >= 12 THEN 300 ELSE IF filled >= 8 THEN 250 ELSE 200

\* heuristic of "MinMaxABMO2 copy": 0.8 * score + 20 * corner + empty * weight
heuristic_copy(s) ==
    LET empty_tiles == EmptyCount(s.board)
    IN  <<800 * getScore(s) + 20000 * corner_anchoring_copy(s)
          + Milli * empty_tiles * EmptyWeight(16 - empty_tiles), 0>>

\* heuristic of "MinMaxABMO2 copy 2":
\* 2000 * (18 * score / 30000 + 5 * corner / 20 + 8 * empty / 16 - 4 * (filled / 16)^2)
heuristic_copy2(s) ==
    LET empty_tiles == EmptyCount(s.board)
        filled == 16 - empty_tiles
    IN  <<1200 * getScore(s) + 500000 * corner_anchoring_copy2(s)
          + 1000000 * empty_tiles - 31250 * filled * filled, 0>>

Variants == {"main", "copy", "copy2"}

\* An evaluator with a hidden counter: its value moves with _nodeCount.
heuristicCounting(vr, s) == <<heuristic_copy(s)[1] + _nodeCount, 0>>

heuristic(vr, s) ==
    CASE vr = "main" -> heuristic_main(s)
      [] vr = "copy" -> heuristic_copy(s)
      [] vr = "copy2" -> heuristic_copy2(s)

\* --------------------------------------------------------------- move orderer
\* The key moveOrder sorts by.  MinMaxABMO2.py: the gradient score of the
\* successor board (times 20).  The copies: score + empty cells * max(16,
\* max(state._board) / 8) of the successor (times 8), where max(state._board)
\* is the largest entry of the board the code holds, an exponent.
EmptyTileValue8(s) ==
    LET m == MaxOfBoard(s.board) IN IF m > 128 THEN m ELSE 128

\* An ordering score that reads a counter: on every second call R goes first.
OrderKeyCounting(vr, s, a) == IF a = "R" THEN _count % 2 ELSE 0

OrderKey(vr, s, a) ==
    LET next_state == move(s, a)
    IN  IF vr = "main" THEN gradient_score20(next_state.board)
        ELSE 8 * getScore(next_state)
             + EmptyCount(next_state.board) * EmptyTileValue8(s)

\* list.sort(key, reverse=True): stable, equal keys keep their order.
\* A sort that is not stable: on every second call equal keys change places.
RECURSIVE InsertDescUnstable(_, _)
InsertDescUnstable(sorted, x) ==
    IF sorted = <<>> THEN <<x>>
    ELSE IF Head(sorted)[2] > x[2] \/ (Head(sorted)[2] = x[2] /\ _count % 2 = 1)
         THEN <<Head(sorted)>> \o InsertDescUnstable(Tail(sorted), x)
    ELSE <<x>> \o sorted

\* A sort that puts an element in front of the equal keys that came before it.
RECURSIVE InsertDescLate(_, _)
InsertDescLate(sorted, x) ==
    IF sorted = <<>> THEN <<x>>
    ELSE IF Head(sorted)[2] > x[2]
         THEN <<Head(sorted)>> \o InsertDescLate(Tail(sorted), x)
    ELSE <<x>> \o sorted

RECURSIVE InsertDesc(_, _)
InsertDesc(sorted, x) ==
    IF sorted = <<>> THEN <<x>>
    ELSE IF Head(sorted)[2] >= x[2] THEN <<Head(sorted)>> \o InsertDesc(Tail(sorted), x)
    ELSE <<x>> \o sorted

RECURSIVE SortDesc(_)
SortDesc(q) ==
    IF q = <<>> THEN <<>>
    ELSE InsertDesc(SortDesc(SubSeq(q, 1, Len(q) - 1)), q[Len(q)])

\* moveOrder ranking all four directions instead of state.actions().
moveOrderAll(vr, s) ==
    LET scored == [k \in 1..4 |-> <<AllActions[k], OrderKey(vr, s, AllActions[k])>>]
        sorted == SortDesc(scored)
    IN  [k \in 1..Len(sorted) |-> sorted[k][1]]

moveOrder(vr, s) ==
    LET acts == actions(s)
        scored == [k \in 1..Len(acts) |-> <<acts[k], OrderKey(vr, s, acts[k])>>]
        sorted == SortDesc(scored)
    IN  [k \in 1..Len(sorted) |-> sorted[k][1]]

\* ------------------------------------------------------------- accessors
Moves == {"U", "D", "L", "R"}

\* BasePlayer.setMove(move) / getMove(): plain accessors of _move.
setMove(m) == m
getMove == _move

Pending == [kind |-> "pending", v |-> <<0, 0>>]
Aborted == [kind |-> "None", v |-> <<0, 0>>]
Value(v) == [kind |-> "value", v |-> v]

\* MAX_DEPTH of "MinMaxABMO2 copy 2"
MAX_DEPTH == 10

\* What a timeRemaining() call may answer: once False, always False.
TimeAnswers == IF expired \/ late THEN {FALSE} ELSE {TRUE, FALSE}

\* ------------------------------------------------------- maxPlayer/minPlayer
\* What a node loops over, in loop order: the ordered actions (maxPlayer) or
\* the (cell, tile) pairs of possibleTiles (minPlayer).
Kids(kind, s) == IF kind = "max" THEN moveOrder(variant, s) ELSE possibleTiles(s)

\* The successor state the loop body builds for loop item k.
Child(kind, s, k) == IF kind = "max" THEN move(s, k) ELSE addTile(s, k[1], k[2])

\* A node returns at once when the state is game over or the depth is used up.
IsLeaf(s, depth) == gameOver(s) \/ depth = 0

\* A node that tests the depth before the end of the game.
LeafValueDepthFirst(s, depth) ==
    IF depth = 0 THEN heuristic(variant, s) ELSE IntVal(getScore(s))

LeafValue(s, depth) ==
    IF gameOver(s) THEN IntVal(getScore(s)) ELSE heuristic(variant, s)

\* The activation record of a node that goes on to expand children.
NewFrame(kind, s, depth, alpha, beta) ==
    [kind |-> kind, st |-> s, depth |-> depth, alpha |-> alpha, beta |-> beta,
     best |-> IF kind = "max" THEN MaxInit ELSE MinInit,
     kids |-> Kids(kind, s), i |-> 1, late |-> FALSE]

Other(kind) == IF kind = "max" THEN "min" ELSE "max"

\* Lines 83-89 and 112-118: the node takes the value v of the child it called.
\* Gives the updated record and whether the loop breaks on alpha >= beta.
\* A maxPlayer whose alpha is its own best value, whatever it received.
MaxTakeOwnAlpha(f, v) ==
    LET best == IF VLt(f.best, v) THEN v ELSE f.best
    IN  [frame |-> [f EXCEPT !.best = best, !.alpha = best, !.i = f.i + 1],
         cut |-> VLe(f.beta, best)]

MaxTake(f, v) ==
    LET best == IF VLt(f.best, v) THEN v ELSE f.best
        alpha == VMax(f.alpha, best)
    IN  [frame |-> [f EXCEPT !.best = best, !.alpha = alpha, !.i = f.i + 1],
         cut |-> VLe(f.beta, alpha)]

\* minPlayer with the cutoff comparison turned round (beta >= alpha).
MinTakeFlipped(f, v) ==
    LET best == IF VLt(v, f.best) THEN v ELSE f.best
        beta == VMin(f.beta, best)
    IN  [frame |-> [f EXCEPT !.best = best, !.beta = beta, !.i = f.i + 1],
         cut |-> VLe(f.alpha, beta)]

MinTake(f, v) ==
    LET best == IF VLt(v, f.best) THEN v ELSE f.best
        beta == VMin(f.beta, best)
    IN  [frame |-> [f EXCEPT !.best = best, !.beta = beta, !.i = f.i + 1],
         cut |-> VLe(beta, f.alpha)]

Take(f, v) == IF f.kind = "max" THEN MaxTake(f, v) ELSE MinTake(f, v)

Top == stack[Len(stack)]
Pop == SubSeq(stack, 1, Len(stack) - 1)

\* Entry of maxPlayer/minPlayer on (kind, s, depth, alpha, beta), up to the
\* first loop test: count the node, then either return a value or start a loop.
EnterNode(kind, s, depth, alpha, beta, under) ==
    /\ late' \in BOOLEAN
    /\ _nodeCount' = _nodeCount + 1
    /\ _childCount' = _childCount + 1
    /\ IF IsLeaf(s, depth)
       THEN /\ ret' = Value(LeafValue(s, depth))
            /\ stack' = under
            /\ _parentCount' = _parentCount
            /\ obs' = [obs EXCEPT !.entered = TRUE,
                                  !.evals = obs.evals \/ ~gameOver(s),
                                  !.visited = obs.visited + 1,
                                  !.steps = obs.steps + 1,
                                  !.lastEval = IF gameOver(s) THEN obs.lastEval
                                               ELSE <<s, LeafValue(s, depth), depth>>,
                                  !.lastLeaf = <<s, depth, LeafValue(s, depth)>>,
                                  !.lateReturn = IF late' THEN "value"
                                                 ELSE obs.lateReturn]
       ELSE /\ ret' = Pending
            /\ stack' = Append(under, [NewFrame(kind, s, depth, alpha, beta)
                                          EXCEPT !.late = late'])
            /\ _parentCount' = _parentCount + 1
            /\ obs' = [obs EXCEPT !.entered = TRUE,
                                  !.visited = obs.visited + 1,
                                  !.steps = obs.steps + 1,
                                  !.expanded = obs.expanded + 1]

\* Loop head of the innermost node: the loop is over, or the deadline is
\* checked and the next child is called.
NodeStep ==
    /\ pc = "wait" /\ ret.kind = "pending" /\ stack # <<>>
    /\ UNCHANGED <<probe, facade, variant, caller, state, pc, _move, _depthCount, _count,
                   _pruneCount, fm>>
    /\ IF Top.i > Len(Top.kids)
       THEN /\ ret' = Value(Top.best)
            /\ stack' = Pop
            /\ obs' = [obs EXCEPT !.lateReturn = IF Top.late THEN "value"
                                                 ELSE obs.lateReturn,
                                  !.emptyRet = IF Top.kids = <<>>
                                               THEN <<Top.kind, Top.st, Top.best>>
                                               ELSE obs.emptyRet]
            /\ UNCHANGED <<expired, late, _nodeCount, _parentCount, _childCount>>
       ELSE \E t \in TimeAnswers :
              /\ expired' = ~t
              /\ IF ~t
                 THEN /\ ret' = Aborted
                      /\ stack' = Pop
                      /\ UNCHANGED <<late, _nodeCount, _parentCount, _childCount>>
                      /\ obs' = [obs EXCEPT !.early = TRUE,
                                            !.lateReturn = IF Top.late THEN "None"
                                                           ELSE obs.lateReturn]
                 ELSE EnterNode(Other(Top.kind),
                                Child(Top.kind, Top.st, Top.kids[Top.i]),
                                Top.depth - 1, Top.alpha, Top.beta, stack)

\* The innermost node receives the result of the child it called.
NodeReturn ==
    /\ pc = "wait" /\ ret.kind # "pending" /\ stack # <<>>
    /\ UNCHANGED <<probe, facade, variant, caller, state, pc, expired, late, _move, _nodeCount,
                   _parentCount, _childCount, _depthCount, _count, fm>>
    /\ IF ret.kind = "None"
       THEN /\ ret' = Aborted
            /\ stack' = Pop
            /\ UNCHANGED <<_pruneCount, obs>>
       ELSE LET t == Take(Top, ret.v)
            IN  IF t.cut
                THEN /\ _pruneCount' = _pruneCount + 1
                     /\ ret' = Value(t.frame.best)
                     /\ stack' = Pop
                     /\ obs' = [obs EXCEPT !.cuts = obs.cuts \cup {Top.kind}]
                ELSE /\ UNCHANGED <<_pruneCount, obs>>
                     /\ ret' = Pending
                     /\ stack' = Append(Pop, t.frame)

\* ------------------------------------------------------------------ findMove
\* Locals of findMove.  depthMove/depthScore are the per-iteration best of
\* MinMaxABMO2.py; the copies call them bestMove/best and have no per-call best.
NoLocals ==
    [actions |-> <<>>, depth |-> 0, bestMove |-> "None", bestScore |-> MaxInit,
     alpha |-> NegInf, beta |-> PosInf, depthMove |-> "None",
     depthScore |-> MaxInit, i |-> 0]

\* Lines 16-26 (copies: 421-422, 230-232): the locals before the while loop.
EntryLocals(acts) ==
    [NoLocals EXCEPT !.actions = acts, !.depth = 1,
                     !.bestMove = IF variant = "main" /\ acts # <<>>
                                  THEN acts[1] ELSE "None"]

\* Lines 18-22: the move committed on entry.  The copies commit nothing here.
EntryMove(acts) ==
    IF variant = "main"
    THEN (IF acts # <<>> THEN setMove(acts[1]) ELSE setMove("U"))
    ELSE _move

\* Line 22: MinMaxABMO2.py returns at once when there is no action.
EntryReturns(acts) == variant = "main" /\ acts = <<>>

\* Lines 29-33 (copies: 424-430, 234-240): the locals at the start of an iteration.
IterLocals(f) ==
    [f EXCEPT !.alpha = NegInf, !.beta = PosInf, !.depthMove = "None",
              !.depthScore = MaxInit, !.i = 1]

\* Lines 425-426, 235-236: the copies count the root of an iteration as a
\* node and as a parent; MinMaxABMO2.py does not.
RootCounts == IF variant = "main" THEN 0 ELSE 1

\* Line 28 (copies: 423, 233): the test of the while loop besides the clock.
\* A while loop without the test depth <= MAX_DEPTH.
DepthAllowedAlways(f) == TRUE

DepthAllowed(f) == variant = "copy2" => f.depth <= MAX_DEPTH

\* Lines 49-53 (copies: 436-439, 246-249): the root takes the value v of action a.
\* A root that lets a later action with an equal value replace an earlier one.
RootTakeTies(f, a, v) ==
    LET better == VLe(f.depthScore, v)
        score == IF better THEN v ELSE f.depthScore
    IN  [f EXCEPT !.depthScore = score,
                  !.depthMove = IF better THEN a ELSE f.depthMove,
                  !.alpha = VMax(f.alpha, score),
                  !.i = f.i + 1]

\* A root that keeps the action evaluated last, whatever its value.
RootTakeLast(f, a, v) ==
    [f EXCEPT !.depthScore = v, !.depthMove = a, !.alpha = VMax(f.alpha, v),
              !.i = f.i + 1]

RootTake(f, a, v) ==
    LET better == VLt(f.depthScore, v)
        score == IF better THEN v ELSE f.depthScore
    IN  [f EXCEPT !.depthScore = score,
                  !.depthMove = IF better THEN a ELSE f.depthMove,
                  !.alpha = IF variant = "main" THEN VMax(f.alpha, v)
                            ELSE VMax(f.alpha, score),
                  !.i = f.i + 1]

\* Lines 56-59 (copies: 441, 251): the move committed at the end of an iteration.
\* The commit without the test "depthMove is not None".
CommitMoveAlways(f) == setMove(f.depthMove)

\* A commit that falls back on the first root action when none was evaluated.
CommitMoveFallback(f) ==
    IF f.depthMove # "None" THEN setMove(f.depthMove)
    ELSE IF f.actions # <<>> THEN setMove(f.actions[1])
    ELSE _move

CommitMove(f) ==
    IF variant = "main"
    THEN (IF f.depthMove # "None" THEN setMove(f.depthMove) ELSE _move)
    ELSE setMove(f.depthMove)

\* Lines 56-61: the locals after the end of an iteration.
CommitLocals(f) ==
    IF variant = "main" /\ f.depthMove # "None"
    THEN [f EXCEPT !.bestMove = f.depthMove, !.bestScore = f.depthScore,
                   !.depth = f.depth + 1]
    ELSE [f EXCEPT !.depth = f.depth + 1]

\* A root that goes on waiting for the call that was stopped.
AfterAbortWait == "wait"

\* A root that goes on with its for loop after a None.
AfterAbortContinue == "root"

\* Where the root goes when the deadline stops an iteration: MinMaxABMO2.py
\* breaks out of the for loop (lines 43, 47), the copies return (433/435, 243/245).
AfterAbort == IF variant = "main" THEN "iterend" ELSE "returned"

\* entered: maxPlayer/minPlayer was entered in this call; evals: heuristic was
\* invoked in this call; early: timeRemaining() answered False in this call
\* before MaxDepth iterations were started; iterEvals / callEvals: root actions
\* fully evaluated in this iteration / call; cuts: the kinds of node that broke
\* on alpha >= beta in this call; visited / expanded: calls of maxPlayer and
\* minPlayer / loops started (root loops included), over the whole run;
\* hist: what each finished call was given and returned; steps: the
\* timeRemaining() calls answered True in this call; committed: setMove was called
\* in this call; lastEval: the state and the value of the latest heuristic
\* call; lateReturn: what the latest maxPlayer/minPlayer call that was entered
\* after the deadline had passed returned; iterAborted: the deadline stopped
\* the root loop of this iteration; iterVals: the root actions fully evaluated
\* in this iteration with the values minPlayer returned; before: the committed
\* move when the latest iteration of this call began; emptyRet: the latest
\* node whose loop had nothing to loop over, with the value it returned;
\* lastLeaf: the latest call that returned before its loop, with its state,
\* its remaining depth and the value it returned; completed: the depth
\* iterations, over the whole run, whose root loop ran to its end.
NewObs ==
    [entered |-> FALSE, evals |-> FALSE, early |-> FALSE, iterEvals |-> 0,
     callEvals |-> 0, cuts |-> {}, visited |-> 0, expanded |-> 0, hist |-> <<>>,
     steps |-> 0, committed |-> FALSE, lastEval |-> <<>>, lateReturn |-> "",
     iterAborted |-> FALSE, iterVals |-> <<>>, before |-> "None",
     emptyRet |-> <<>>, lastLeaf |-> <<>>, completed |-> 0]

\* The caller starts the clock and calls findMove (Runner.py 24-25); findMove
\* runs up to its while loop.
CallFindMove ==
    /\ pc = "idle"
    /\ _count < MaxCalls
    /\ caller = "run_game" => ~gameOver(state)
    /\ LET acts == moveOrder(variant, state)
       IN  /\ _count' = _count + 1
           /\ expired' = FALSE
           /\ late' = FALSE
           /\ _move' = EntryMove(acts)
           /\ fm' = EntryLocals(acts)
           /\ pc' = IF EntryReturns(acts) THEN "returned" ELSE "loop"
    /\ obs' = [obs EXCEPT !.entered = FALSE, !.evals = FALSE, !.early = FALSE,
                          !.iterEvals = 0, !.callEvals = 0, !.cuts = {},
                          !.steps = 0, !.lastEval = <<>>, !.lateReturn = "",
                          !.iterAborted = FALSE, !.iterVals = <<>>,
                          !.before = "None",
                          !.committed = (variant = "main")]
    /\ UNCHANGED <<probe, facade, variant, caller, state, _nodeCount, _parentCount, _childCount,
                   _depthCount, _pruneCount, stack, ret>>

\* The iterations followed.  On the facade that lists no-op actions one more
\* is followed: minPlayer meets a full board with depth > 0 in the fourth.
\* With no root action an iteration is a handful of steps, and the iterations
\* are followed until the test depth <= MAX_DEPTH has failed.
DepthCap ==
    IF fm.actions = <<>> THEN MAX_DEPTH + 1
    ELSE IF facade = "loose" THEN MaxDepth + 1
    ELSE MaxDepth

\* The test of the while loop.  The clock is taken to have run out by the
\* time DepthCap iterations were started.
LoopTest ==
    /\ pc = "loop"
    /\ \E t \in (IF fm.depth > DepthCap THEN {FALSE} ELSE TimeAnswers) :
         /\ expired' = ~t
         /\ IF t /\ DepthAllowed(fm)
            THEN /\ pc' = "root"
                 /\ _depthCount' = _depthCount + 1
                 /\ _parentCount' = _parentCount + RootCounts
                 /\ _nodeCount' = _nodeCount + RootCounts
                 /\ fm' = IterLocals(fm)
                 /\ obs' = [obs EXCEPT !.iterEvals = 0,
                                       !.iterAborted = FALSE,
                                       !.iterVals = <<>>,
                                       !.before = _move,
                                       !.steps = obs.steps + 1,
                                       !.expanded = obs.expanded + 1]
            ELSE /\ pc' = "returned"
                 /\ obs' = [obs EXCEPT !.early = obs.early
                                                 \/ (~t /\ fm.depth <= DepthCap)]
                 /\ UNCHANGED <<_depthCount, _parentCount, _nodeCount, fm>>
    /\ UNCHANGED <<probe, facade, variant, caller, state, late, _move, _childCount,
                   _count, _pruneCount, stack, ret>>

\* One pass of the for loop over the root actions, up to the call of minPlayer.
RootStep ==
    /\ pc = "root"
    /\ UNCHANGED <<probe, facade, variant, caller, state, _move, _depthCount, _count, _pruneCount>>
    /\ IF fm.i > Len(fm.actions)
       THEN /\ pc' = "iterend"
            /\ obs' = [obs EXCEPT !.completed = obs.completed + 1]
            /\ UNCHANGED <<expired, late, _nodeCount, _parentCount, _childCount, fm,
                           stack, ret>>
       ELSE LET result == move(state, fm.actions[fm.i])
            IN  IF variant = "main" /\ result.board = state.board
                THEN /\ fm' = [fm EXCEPT !.i = fm.i + 1]
                     /\ UNCHANGED <<pc, expired, late, _nodeCount, _parentCount,
                                    _childCount, stack, ret, obs>>
                ELSE \E t \in TimeAnswers :
                       /\ expired' = ~t
                       /\ UNCHANGED fm
                       /\ IF ~t
                          THEN /\ pc' = AfterAbort
                               /\ obs' = [obs EXCEPT !.early = TRUE,
                                                     !.iterAborted = TRUE]
                               /\ UNCHANGED <<late, _nodeCount, _parentCount,
                                              _childCount, stack, ret>>
                          ELSE /\ pc' = "wait"
                               /\ EnterNode("min", result, fm.depth - 1,
                                            fm.alpha, fm.beta, <<>>)

\* The root receives the result of minPlayer.
RootReturn ==
    /\ pc = "wait" /\ ret.kind # "pending" /\ stack = <<>>
    /\ ret' = Pending
    /\ IF ret.kind = "None"
       THEN /\ pc' = AfterAbort
            /\ obs' = [obs EXCEPT !.iterAborted = TRUE]
            /\ UNCHANGED fm
       ELSE /\ pc' = "root"
            /\ fm' = RootTake(fm, fm.actions[fm.i], ret.v)
            /\ obs' = [obs EXCEPT !.iterEvals = obs.iterEvals + 1,
                                  !.callEvals = obs.callEvals + 1,
                                  !.iterVals = Append(obs.iterVals,
                                                      <<fm.actions[fm.i], ret.v>>)]
    /\ UNCHANGED <<probe, facade, variant, caller, state, expired, late, _move, counters, stack>>

\* After the for loop: commit and go to the next depth.
IterEnd ==
    /\ pc = "iterend"
    /\ _move' = CommitMove(fm)
    /\ fm' = CommitLocals(fm)
    /\ pc' = "loop"
    /\ obs' = [obs EXCEPT !.committed = obs.committed \/ variant # "main"
                                         \/ fm.depthMove # "None"]
    /\ UNCHANGED <<probe, facade, variant, caller, state, expired, late, counters, stack, ret>>

\* ------------------------------------------------------------------- callers
Record == [st |-> state, move |-> getMove, full |-> ~obs.early,
           steps |-> obs.steps, committed |-> obs.committed,
           values |-> <<fm.depthMove, fm.depthScore, fm.bestMove, fm.bestScore>>]

\* Runner.py 26-32: read the move, apply it, let the game add a random tile.
\* A move that is no legal action of the state is outside the facade's contract.
\* The run is followed as long as another findMove call may come.
ApplyMove ==
    /\ pc = "returned" /\ caller = "run_game"
    /\ _count < MaxCalls
    /\ obs' = [obs EXCEPT !.hist = Append(obs.hist, Record)]
    /\ IF getMove \in Moves /\ move(state, getMove).board # state.board
       THEN LET moved == move(state, getMove)
            IN  \E k \in 1..Len(possibleTiles(moved)) :
                  /\ state' = addTile(moved, possibleTiles(moved)[k][1],
                                      possibleTiles(moved)[k][2])
                  /\ pc' = "idle"
       ELSE /\ pc' = "illegal"
            /\ UNCHANGED state
    /\ UNCHANGED <<probe, facade, variant, caller, expired, late, _move, counters, fm, stack, ret>>

\* Runner.py 20, 34-44: the game is over, run_game returns.
GameOver ==
    /\ pc = "idle" /\ caller = "run_game" /\ gameOver(state)
    /\ pc' = "done"
    /\ UNCHANGED <<probe, facade, variant, caller, state, expired, late, _move, counters, fm, stack,
                   ret, obs>>

\* A direct caller reads the move and may call again on the same state.
ReadMove ==
    /\ pc = "returned" /\ caller \in {"direct", "once"}
    /\ obs' = [obs EXCEPT !.hist = Append(obs.hist, Record)]
    /\ pc' = IF caller = "direct" THEN "idle" ELSE "done"
    /\ UNCHANGED <<probe, facade, variant, caller, state, expired, late, _move, counters, fm, stack, ret>>

\* -------------------------------------------------------------- initial states
St(b, sc) == [board |-> b, score |-> sc]

\* A full board without two equal neighbours: no legal action.
DeadBoard == <<1, 2, 1, 2,  2, 1, 2, 1,  1, 2, 1, 2,  2, 1, 2, 1>>
\* The same with the last cell empty: the mirror-image actions R and D.
CornerHole == <<1, 2, 1, 2,  2, 1, 2, 1,  1, 2, 1, 2,  2, 1, 2, 0>>
\* One empty cell, and a 4 spawned after D ends the game.
LastCell == <<1, 2, 1, 4,  2, 1, 2, 3,  1, 2, 1, 2,  3, 4, 3, 0>>
\* A nearly full board, two empty cells, merges available.
LateBoard == <<3, 2, 1, 2,  2, 1, 3, 1,  1, 3, 2, 0,  2, 1, 0, 1>>

\* <<caller, state>>: run_game plays from a state of the game; a direct caller
\* may hand findMove any state, a finished game included, and call again on the
\* same state ("direct") or not ("once").
InitCases ==
    {<<"run_game", St(LastCell, 140)>>,
     <<"run_game", St(DeadBoard, 16)>>,
     <<"direct", St(DeadBoard, 16)>>,
     <<"direct", St(CornerHole, 20)>>,
     <<"once", St(LateBoard, 44)>>}

NoProbe == [a |-> St(DeadBoard, 0), b |-> St(DeadBoard, 0), done |-> FALSE,
            va |-> <<0, 0>>, vb |-> <<0, 0>>]

Init ==
    /\ variant \in Variants
    /\ \E c \in InitCases : caller = c[1] /\ state = c[2]
    /\ pc = "idle"
    /\ expired = FALSE
    /\ late = FALSE
    /\ facade = "strict"
    /\ _move = "None"
    /\ _nodeCount = 0 /\ _parentCount = 0 /\ _childCount = 0
    /\ _depthCount = 0 /\ _count = 0 /\ _pruneCount = 0
    /\ fm = NoLocals
    /\ stack = <<>>
    /\ ret = Pending
    /\ obs = NewObs
    /\ probe = NoProbe

Next ==
    \/ CallFindMove
    \/ LoopTest
    \/ RootStep
    \/ NodeStep
    \/ NodeReturn
    \/ RootReturn
    \/ IterEnd
    \/ ApplyMove
    \/ GameOver
    \/ ReadMove

Spec == Init /\ [][Next]_vars

\* The steps of findMove, maxPlayer and minPlayer: straight-line Python, which
\* goes on running once it was called.
FindMoveStep ==
    LoopTest \/ RootStep \/ NodeStep \/ NodeReturn \/ RootReturn \/ IterEnd

SpecLive == Spec /\ WF_vars(FindMoveStep)

\* ------------------------------------------- a facade outside its contract
\* A full board whose only equal neighbours are the last two cells: L and R
\* change it, U and D do not.
FullMerge == <<1, 2, 1, 2,  2, 1, 2, 1,  1, 2, 1, 2,  2, 1, 3, 3>>

LooseCases ==
    {<<"run_game", St(LastCell, 140)>>,
     <<"run_game", St(DeadBoard, 16)>>,
     <<"once", St(FullMerge, 60)>>}

\* The same program on a facade whose actions() lists all four directions.
InitLoose ==
    /\ variant \in Variants
    /\ \E c \in LooseCases : caller = c[1] /\ state = c[2]
    /\ pc = "idle"
    /\ expired = FALSE
    /\ late = FALSE
    /\ facade = "loose"
    /\ _move = "None"
    /\ _nodeCount = 0 /\ _parentCount = 0 /\ _childCount = 0
    /\ _depthCount = 0 /\ _count = 0 /\ _pruneCount = 0
    /\ fm = NoLocals
    /\ stack = <<>>
    /\ ret = Pending
    /\ obs = NewObs
    /\ probe = NoProbe

SpecLoose == InitLoose /\ [][Next]_vars

\* --------------------------------------------------- the evaluator on its own
\* Two states with the same score, corner chain and gradient sum: EightFree
\* has 8 empty cells, NineFree has 9.
EightFree == <<4, 3, 2, 1,  3, 0, 0, 1,  2, 0, 0, 0,  1, 0, 0, 0>>
NineFree == <<4, 3, 2, 2,  3, 0, 0, 0,  2, 0, 0, 0,  1, 0, 0, 0>>
\* The board of the spec's scenario: a 4 in the top-left corner, a 2 next to it.
Fixture == <<2, 1, 0, 0,  0, 0, 0, 0,  0, 0, 0, 0,  0, 0, 0, 0>>

EvalStates ==
    {St(EightFree, 80), St(NineFree, 80), St(LateBoard, 44), St(CornerHole, 20),
     move(St(Fixture, 4), "D"), move(St(Fixture, 4), "R")}

InitEval ==
    /\ variant \in Variants
    /\ caller = "eval"
    /\ state = St(DeadBoard, 0)
    /\ pc = "eval"
    /\ expired = FALSE
    /\ late = FALSE
    /\ facade = "strict"
    /\ _move = "None"
    /\ _nodeCount = 0 /\ _parentCount = 0 /\ _childCount = 0
    /\ _depthCount = 0 /\ _count = 0 /\ _pruneCount = 0
    /\ fm = NoLocals
    /\ stack = <<>>
    /\ ret = Pending
    /\ obs = NewObs
    /\ \E x \in EvalStates, y \in EvalStates : probe = [NoProbe EXCEPT !.a = x, !.b = y]

\* heuristic is applied to both states.
Evaluate ==
    /\ pc = "eval" /\ ~probe.done
    /\ probe' = [probe EXCEPT !.done = TRUE, !.va = heuristic(variant, probe.a),
                              !.vb = heuristic(variant, probe.b)]
    /\ UNCHANGED <<facade, variant, caller, state, pc, expired, late, _move, counters, fm,
                   stack, ret, obs>>

NextEval == Evaluate

SpecEval == InitEval /\ [][NextEval]_vars

\* ============================================================== properties
InCall == pc \in {"loop", "root", "wait", "iterend", "returned"}

\* C1: for a state with at least one legal action, the move committed when
\* findMove returns is one of that state's legal actions, whenever the
\* deadline expired.
C1_CommittedMoveIsLegal ==
    (pc = "returned" /\ actions(state) # <<>>)
        => \E k \in 1..Len(actions(state)) : _move = actions(state)[k]

\* C2: for a state with no legal action, findMove returns with a committed
\* move that is none of the four directions.
C2_NoActionGivesSentinel ==
    (pc = "returned" /\ actions(state) = <<>>) => _move \notin Moves

\* C3: on a state with no legal action, findMove invokes neither heuristic
\* nor maxPlayer/minPlayer before it returns.
C3_NoSearchWithoutActions ==
    (InCall /\ actions(state) = <<>>) => (~obs.entered /\ ~obs.evals)

\* C3 witness: findMove has returned on the full board without legal action,
\* after the copy's loop ran at least one depth iteration.
C3_Witness ==
    /\ pc = "returned" /\ state.board = DeadBoard /\ _count >= 1
    /\ variant = "copy" /\ _depthCount >= 1

\* The value of state s for the side `kind` to move with `depth` plies left,
\* by the plain min/max recursion over every action and every tile placement:
\* no window, no cutoff, no move ordering.
VMaxOf(S) == CHOOSE x \in S : \A y \in S : VLe(y, x)
VMinOf(S) == CHOOSE x \in S : \A y \in S : VLe(x, y)

RECURSIVE FullValue(_, _, _)
FullValue(kind, s, depth) ==
    IF gameOver(s) THEN IntVal(getScore(s))
    ELSE IF depth = 0 THEN heuristic(variant, s)
    ELSE IF kind = "max"
         THEN VMaxOf({MaxInit} \cup
                     {FullValue("min", move(s, a), depth - 1) :
                          a \in {x \in Moves : move(s, x).board # s.board}})
         ELSE VMinOf({MinInit} \cup
                     {FullValue("max", addTile(s, c, v), depth - 1) :
                          c \in {x \in Cells : s.board[x] = 0}, v \in {1, 2}})

\* C4: when the deadline did not stop it, the best value of the depth-d
\* iteration of the pruned search equals the value of the unpruned min/max
\* traversal of the same tree to depth d.
C4_PrunedEqualsFull ==
    (pc = "iterend" /\ ~expired /\ fm.actions # <<>>)
        => fm.depthScore = FullValue("max", state, fm.depth)

\* C4 witness: an iteration of depth 3 ran to its end and both a maxPlayer
\* and a minPlayer node broke on alpha >= beta in that call.
C4_Witness ==
    /\ pc = "iterend" /\ ~expired /\ fm.depth = 3
    /\ obs.cuts = {"max", "min"}

C6_FallbackIsTopOfOrder ==
    (pc = "returned" /\ actions(state) # <<>> /\ obs.callEvals = 0)
        => _move = moveOrder(variant, state)[1]

C8_BranchingFactorMatches ==
    (pc = "returned" /\ _count = 1 /\ ~obs.early /\ actions(state) # <<>>)
        => _childCount * obs.expanded = obs.visited * _parentCount

MaxInCorner(board) == \E c \in Corners : board[c] = MaxOfBoard(board)

FixtureSuccessors ==
    {move(St(Fixture, 4), a) : a \in {x \in Moves : move(St(Fixture, 4), x).board # Fixture}}

\* C9: of two successors of the scenario board with the same score, the one
\* that keeps the maximum tile in a corner is valued strictly higher than the
\* one whose maximum tile is in no corner.
C9_CornerKeepingSuccessorHigher ==
    (/\ probe.done
     /\ probe.a \in FixtureSuccessors /\ probe.b \in FixtureSuccessors
     /\ probe.a.score = probe.b.score
     /\ MaxInCorner(probe.a.board) /\ ~MaxInCorner(probe.b.board))
        => VLt(probe.vb, probe.va)

\* The corner and gradient contributions of the evaluator in use.
CornerPart(s) ==
    CASE variant = "main" -> <<improved_corner_score20(s), TopLeftBonusPct(s)>>
      [] variant = "copy" -> <<corner_anchoring_copy(s), 0>>
      [] variant = "copy2" -> <<corner_anchoring_copy2(s), 0>>

GradientPart(s) == IF variant = "main" THEN tile_gradient_score163840(s) ELSE 0

\* C10: of two states with the same positive score and the same corner and
\* gradient contributions, the one with more empty cells is valued strictly
\* higher.
C10_MoreEmptyCellsHigher ==
    (/\ probe.done
     /\ probe.a.score = probe.b.score /\ probe.a.score > 0
     /\ CornerPart(probe.a) = CornerPart(probe.b)
     /\ GradientPart(probe.a) = GradientPart(probe.b)
     /\ EmptyCount(probe.a.board) < EmptyCount(probe.b.board))
        => VLt(probe.va, probe.vb)

MaxFrames == {k \in 1..Len(stack) : stack[k].kind = "max"}

PosIn(q, x) == CHOOSE k \in 1..Len(q) : q[k] = x

\* q lists exactly the legal actions of s, each once, by non-increasing
\* ordering score, equal scores in the order of state.actions().
WellOrdered(q, s) ==
    LET acts == actions(s)
        key == [k \in 1..Len(q) |-> OrderKey(variant, s, q[k])]
        pos == [k \in 1..Len(q) |-> PosIn(acts, q[k])]
    IN  /\ Len(q) = Len(acts)
        /\ \A k \in 1..Len(acts) : \E j \in 1..Len(q) : q[j] = acts[k]
        /\ \A i, j \in 1..Len(q) :
              i < j => /\ q[i] # q[j]
                       /\ key[i] >= key[j]
                       /\ key[i] = key[j] => pos[i] < pos[j]

\* C12: moveOrder returns a permutation of exactly the state's legal actions,
\* by non-increasing ordering score, equal scores in the enumeration order of
\* state.actions(); the order a caller holds is the order moveOrder gives for
\* that state at any later time, and the step that calls moveOrder from
\* maxPlayer changes neither the caller's state nor the committed move.
C12_MoveOrderStableSorted ==
    /\ [](/\ pc \in {"loop", "returned"}
                => /\ fm.actions = moveOrder(variant, state)
                   /\ WellOrdered(fm.actions, state)
          /\ (stack # <<>> /\ Top.kind = "max")
                => /\ Top.kids = moveOrder(variant, Top.st)
                   /\ WellOrdered(Top.kids, Top.st))
    /\ [][(Len(stack') > Len(stack) /\ stack'[Len(stack')].kind = "max")
            => (state' = state /\ _move' = _move /\ fm' = fm)]_vars

\* C12 witness: a maxPlayer activation holds an order of at least three
\* actions, two of them with equal ordering score and one with another.
C12_Witness ==
    /\ pc = "wait"
    /\ \E k \in MaxFrames :
          LET q == stack[k].kids
              key == [n \in 1..Len(q) |-> OrderKey(variant, stack[k].st, q[n])]
          IN  \E i, j, l \in 1..Len(q) :
                i < j /\ key[i] = key[j] /\ key[l] # key[i]

\* C13: the instrumentation counters never influence the search: a findMove
\* call on the same state as an earlier call, started with other counter
\* values and with the same number of timeRemaining() calls answered True
\* before the deadline expired, commits a move if and only if the earlier
\* call did, commits the same move and ends with the same best moves and
\* values.  (A call that commits nothing leaves the move of the call before.)
C13_CountersDoNotInfluence ==
    pc = "returned"
        => \A k \in 1..Len(obs.hist) :
              (obs.hist[k].st = state /\ obs.hist[k].steps = obs.steps)
                  => /\ obs.hist[k].committed = obs.committed
                     /\ obs.committed => obs.hist[k].move = _move
                     /\ obs.hist[k].values
                          = <<fm.depthMove, fm.depthScore, fm.bestMove, fm.bestScore>>

\* C13 witness: a second call on the same state, started with counters the
\* first call left above zero, was stopped by the deadline inside the search
\* at the same timeRemaining() call as the first.
C13_Witness ==
    /\ pc = "returned" /\ _count = 2 /\ obs.early /\ obs.steps >= 6
    /\ _pruneCount > 0 /\ _move \in Moves /\ obs.committed
    /\ obs.hist[1].st = state /\ obs.hist[1].steps = obs.steps

\* state.result(move) as run_game uses it: the states that applying the
\* committed move and adding one random tile can give.
Results(s, m) ==
    IF m \in Moves /\ move(s, m).board # s.board
    THEN {addTile(move(s, m), possibleTiles(move(s, m))[k][1],
                  possibleTiles(move(s, m))[k][2]) :
              k \in 1..Len(possibleTiles(move(s, m)))}
    ELSE {}

\* C14: in run_game findMove is called only on a state that is not game
\* over, once per state; the step after its return applies the move that
\* this call committed to that same state; the state changes at no other
\* step; and when run_game has returned the state is game over.
C14_OneCallPerTurn ==
    /\ []((caller = "run_game" /\ pc = "done") => gameOver(state))
    /\ [][caller = "run_game"
            => /\ (_count' # _count) => (pc = "idle" /\ ~gameOver(state))
               /\ (pc = "idle" /\ ~gameOver(state)) => _count' = _count + 1
               /\ (state' # state) => pc = "returned"
               /\ (pc = "returned")
                    => (obs.committed /\ state' \in Results(state, getMove))]_vars

\* The first of the evaluated root actions whose returned value is largest.
BestOf(vals) ==
    LET k == CHOOSE i \in 1..Len(vals) :
                 /\ \A j \in 1..Len(vals) : VLe(vals[j][2], vals[i][2])
                 /\ \A j \in 1..(i - 1) : VLt(vals[j][2], vals[i][2])
    IN  vals[k][1]

\* C15: in MinMaxABMO2.py, if the deadline stops depth iteration d after at
\* least one root action was fully evaluated at depth d, the move committed
\* when findMove returns is the best-valued of the actions fully evaluated at
\* depth d: the first with the largest returned value, whose depth-d min/max
\* value is at least that of every other evaluated action.
C15_PartialDepthCommitsBest ==
    (/\ pc = "returned" /\ variant = "main"
     /\ obs.iterAborted /\ obs.iterVals # <<>>)
        => /\ getMove = BestOf(obs.iterVals)
           /\ \A k \in 1..Len(obs.iterVals) :
                 VLe(FullValue("min", move(state, obs.iterVals[k][1]), fm.depth - 2),
                     FullValue("min", move(state, getMove), fm.depth - 2))

\* C15 witness: the deadline stopped an iteration of depth 2 or more after a
\* root action was evaluated, and the move committed at return is another
\* move than the one the iteration before had committed.
C15_Witness ==
    /\ pc = "returned" /\ variant = "main" /\ fm.depth >= 3
    /\ obs.iterAborted /\ obs.iterVals # <<>>
    /\ getMove # obs.before /\ Len(obs.iterVals) < Len(fm.actions)

\* C16: if a depth iteration ends with no root action fully evaluated, the
\* committed move after that iteration is the committed move before it: no
\* step of such an iteration changes the move, and when the iteration is
\* over the move is the one committed when the iteration began.
C16_EmptyIterationKeepsMove ==
    /\ []((pc \in {"loop", "returned"} /\ obs.steps > 0 /\ obs.iterVals = <<>>)
             => _move = obs.before)
    /\ [][(pc \in {"root", "wait", "iterend"} /\ obs.iterVals = <<>>)
             => _move' = _move]_vars

\* C16 witness: findMove of MinMaxABMO2.py returned after the deadline
\* stopped an iteration of depth 2 or more inside the evaluation of its first
\* root action, the committed move being the one the iteration before chose
\* and not the first action of the ordering.
C16_Witness ==
    /\ pc = "returned" /\ variant = "main" /\ fm.depth >= 3
    /\ obs.iterAborted /\ obs.iterVals = <<>> /\ obs.lateReturn = ""
    /\ _nodeCount > 0 /\ _move = obs.before /\ _move # fm.actions[1]

\* C17: every call of maxPlayer or minPlayer that is entered after the
\* deadline has expired returns None and never a number, also on a game-over
\* state and with depth 0.
C17_LateCallReturnsNone == obs.lateReturn # "value"

\* C18: a None returned by a child call is never used.  An inner node that
\* receives it returns None itself, and the callers above it, the root's
\* locals, the committed move and the prune counter are as they were; the
\* root that receives it keeps alpha, beta, its best score and best move, and
\* stops the iteration.
C18_NoneIsNeverUsed ==
    [][(pc = "wait" /\ ret.kind = "None")
         => /\ fm' = fm /\ _move' = _move /\ _pruneCount' = _pruneCount
            /\ obs'.iterVals = obs.iterVals
            /\ IF stack # <<>>
               THEN stack' = Pop /\ ret' = Aborted /\ pc' = pc
               ELSE stack' = <<>> /\ pc' \in {"iterend", "returned"}]_vars

\* C18 witness: a minPlayer node that already took the value of a child
\* holds a None from its next child, under a root that already has a best
\* move in this iteration.
C18_Witness ==
    /\ pc = "wait" /\ ret.kind = "None" /\ stack # <<>>
    /\ Top.kind = "min" /\ Top.i > 1 /\ Top.best # MinInit
    /\ fm.depthMove # "None" /\ fm.i > 1

\* C19: when actions() lists a direction that leaves the board unchanged,
\* the move committed when findMove returns on a state that some direction
\* changes is never such a direction, whenever the deadline expires.
C19_NoOpIsNeverCommitted ==
    (pc = "returned" /\ ~gameOver(state) /\ getMove \in Moves)
        => move(state, getMove).board # state.board

\* C20: a maxPlayer call on a state with depth > 0 that is not game over and
\* has no action, or a minPlayer call on such a state with no tile to place,
\* returns the score of the state, as a call on a game-over state does.
C20_EmptyNodeReturnsScore ==
    obs.emptyRet # <<>> => obs.emptyRet[3] = IntVal(getScore(obs.emptyRet[2]))

\* C21: in every maxPlayer/minPlayer call the game-over test comes before
\* the depth cutoff: a call on a game-over state returns getScore() at any
\* remaining depth, and heuristic is invoked only on states that are not
\* game over and only with remaining depth 0.
C21_GameOverBeforeDepth ==
    /\ obs.lastLeaf # <<>>
          => /\ (gameOver(obs.lastLeaf[1])
                  => obs.lastLeaf[3] = IntVal(getScore(obs.lastLeaf[1])))
             /\ (~gameOver(obs.lastLeaf[1])
                  => /\ obs.lastLeaf[2] = 0
                     /\ obs.lastLeaf[3] = heuristic(variant, obs.lastLeaf[1]))
    /\ obs.lastEval # <<>>
          => ~gameOver(obs.lastEval[1]) /\ obs.lastEval[3] = 0

\* C21 witness: a call with remaining depth 0 on a game-over state whose
\* heuristic value is not its score has returned.
C21_Witness ==
    /\ obs.lastLeaf # <<>> /\ obs.lastLeaf[2] = 0 /\ gameOver(obs.lastLeaf[1])
    /\ heuristic(variant, obs.lastLeaf[1]) # IntVal(getScore(obs.lastLeaf[1]))
    /\ obs.lastEval # <<>>

\* The window of the caller of the outermost node is the root's.
WindowAbove(k) == IF k = 1 THEN fm ELSE stack[k - 1]

\* C22: the (alpha, beta) window only narrows down a branch.  Every node's
\* alpha is at least its caller's and its beta at most its caller's; a node
\* is called with the window its caller has at that moment; while a node
\* runs, a maxPlayer call only raises alpha and leaves beta, a minPlayer call
\* only lowers beta and leaves alpha; each depth iteration starts at the
\* root with the window (-inf, +inf).
C22_WindowOnlyNarrows ==
    /\ [](\A k \in 1..Len(stack) :
             /\ VLe(WindowAbove(k).alpha, stack[k].alpha)
             /\ VLe(stack[k].beta, WindowAbove(k).beta))
    /\ [][/\ (Len(stack') = Len(stack) + 1)
              => /\ stack'[Len(stack')].alpha = WindowAbove(Len(stack')).alpha
                 /\ stack'[Len(stack')].beta = WindowAbove(Len(stack')).beta
          /\ (stack # <<>> /\ Len(stack') = Len(stack))
              => /\ VLe(Top.alpha, stack'[Len(stack')].alpha)
                 /\ VLe(stack'[Len(stack')].beta, Top.beta)
                 /\ (Top.kind = "max" => stack'[Len(stack')].beta = Top.beta)
                 /\ (Top.kind = "min" => stack'[Len(stack')].alpha = Top.alpha)
          /\ (pc = "loop" /\ pc' = "root")
              => fm'.alpha = NegInf /\ fm'.beta = PosInf]_vars

\* C22 witness: a maxPlayer call under a minPlayer call, its alpha above the
\* alpha it was called with, its beta the lowered beta of the minPlayer call,
\* under a root whose alpha is no longer -inf.
C22_Witness ==
    /\ Len(stack) = 2 /\ Top.kind = "max"
    /\ VLt(stack[1].alpha, Top.alpha) /\ VLt(Top.beta, PosInf)
    /\ Top.beta = stack[1].beta /\ VLt(NegInf, fm.alpha)

\* C23: _pruneCount counts pruned branches: it goes up, by one, only when a
\* maxPlayer or minPlayer node stops its loop on alpha >= beta while at least
\* one of its children is still unexpanded.
C23_PruneCountsSkippedBranches ==
    [][(_pruneCount' # _pruneCount)
         => /\ pc = "wait" /\ stack # <<>> /\ ret.kind = "value"
            /\ Take(Top, ret.v).cut
            /\ Top.i < Len(Top.kids)
            /\ _pruneCount' = _pruneCount + 1]_vars

\* C24: after any sequence of findMove calls _depthCount is the number of
\* depth iterations that were completed, an iteration the deadline stopped
\* not being counted, and _count is the number of findMove calls.
C24_DepthCountIsCompleted ==
    pc = "returned"
        => /\ _depthCount = obs.completed
           /\ _count = Len(obs.hist) + 1

\* The factor by which OrderKey scales the score the code computes.
KeyScale(vr) == IF vr = "main" THEN 20 ELSE 8

\* The ordering score of action a in state s as the specification of the
\* orderer gives it: resulting score + empty cells of the result times
\* max(16, largest tile value / 8), the largest tile value being 2^exponent.
\* (2^m / 8 is above 16 exactly for exponents m of 8 and more.)
StatedKey(s, a) ==
    LET next_state == move(s, a)
        m == MaxOfBoard(s.board)
        emptyTileWeight == IF m >= 8 THEN 2 ^ (m - 3) ELSE 16
    IN  getScore(next_state) + EmptyCount(next_state.board) * emptyTileWeight

\* C25: the ordering score moveOrder assigns to an action is resultingScore
\* + emptyCellCount * emptyTileWeight with emptyTileWeight
\* = max(16, maxTileValueOnBoard / 8), maxTileValueOnBoard = 2^exponent.
C25_OrderingScoreFormula ==
    (pc \in {"loop", "returned"})
        => \A k \in 1..Len(fm.actions) :
              OrderKey(variant, state, fm.actions[k])
                  = KeyScale(variant) * StatedKey(state, fm.actions[k])

\* The corner-anchoring term in the value of state s, in the units of
\* heuristic: base_score * CORNER_BONUS_PCT * improved_corner_score
\* (MinMaxABMO2.py, times 4096000), 20 * corner_anchoring ("copy", times
\* 1000), 2000 * 5 * corner_anchoring / 20 ("copy 2", times 1000).
CornerAnchoringTerm(s) ==
    CASE variant = "main" -> getScore(s) * CornerTerm(s)
      [] variant = "copy" -> 20000 * corner_anchoring_copy(s)
      [] variant = "copy2" -> 500000 * corner_anchoring_copy2(s)

\* C26: the corner-anchoring term of the evaluator is zero for every board
\* on which no maximum tile is in one of the four corners.
C26_CornerTermOnlyInCorner ==
    probe.done
        => \A s \in {probe.a, probe.b} :
              ~MaxInCorner(s.board) => CornerAnchoringTerm(s) = 0

Searching == pc \in {"loop", "root", "wait", "iterend"}

\* C27: once timeRemaining() has answered False in a findMove call, the call
\* returns in the end, and until then no maxPlayer or minPlayer call is made,
\* no loop is started and heuristic is not invoked.
C27_ExpiryStopsTheSearch ==
    /\ (Searching /\ expired) ~> (pc = "returned")
    /\ [][(Searching /\ expired)
            => /\ obs'.visited = obs.visited /\ obs'.expanded = obs.expanded
               /\ obs'.lastEval = obs.lastEval /\ obs'.lastLeaf = obs.lastLeaf
               /\ _nodeCount' = _nodeCount /\ _parentCount' = _parentCount
               /\ expired']_vars

\* C27 witness: findMove has returned after timeRemaining() answered False
\* during an iteration of depth 2 or more, with heuristic invoked and a
\* cutoff taken before that.
C27_Witness ==
    /\ pc = "returned" /\ expired /\ obs.iterAborted /\ obs.lastEval # <<>>
    /\ fm.depth >= 3 /\ obs.cuts # {} /\ obs.lateReturn = ""
    /\ obs.visited > obs.expanded

\* C28: within one findMove call the depth limits of the iterations are
\* 1, 2, 3, ...: the limit is 1 on entry and goes up by one at the end of
\* each iteration and nowhere else; the root calls minPlayer with limit - 1
\* and each call below has one less, minPlayer and maxPlayer taking turns;
\* "MinMaxABMO2 copy 2" starts no iteration with a limit above MAX_DEPTH:
\* with the limit above it the while test ends the call, time left or not.
C28_DepthsGoUpByOne ==
    /\ [](\A k \in 1..Len(stack) :
             /\ stack[k].depth = fm.depth - k
             /\ stack[k].kind = (IF k % 2 = 1 THEN "min" ELSE "max"))
    /\ []((variant = "copy2" /\ pc \in {"root", "wait", "iterend"})
             => fm.depth <= MAX_DEPTH)
    /\ [][/\ (pc = "idle" /\ pc' # "idle" /\ pc' # "done") => fm'.depth = 1
          /\ (pc = "iterend") => fm'.depth = fm.depth + 1
          /\ (Searching /\ pc # "iterend") => fm'.depth = fm.depth
          /\ (variant = "copy2" /\ pc = "loop" /\ fm.depth > MAX_DEPTH)
                => pc' = "returned"]_vars

\* C28 witness: "MinMaxABMO2 copy 2" has returned after ten iterations, at
\* the test of the limit 11, with timeRemaining() never having answered False.
C28_Witness ==
    /\ variant = "copy2" /\ pc = "returned" /\ ~expired /\ ~obs.early
    /\ fm.depth = MAX_DEPTH + 1 /\ _depthCount >= MAX_DEPTH

\* The root actions that change the board, in move order, and the first of
\* them whose min/max value to depth d is largest.
ChangingActions == SelectSeq(fm.actions, LAMBDA a : move(state, a).board # state.board)

FirstBest(d) ==
    LET acts == ChangingActions
        vals == [i \in 1..Len(acts) |-> FullValue("min", move(state, acts[i]), d - 1)]
        k == CHOOSE i \in 1..Len(acts) :
                 /\ \A j \in 1..Len(acts) : VLe(vals[j], vals[i])
                 /\ \A j \in 1..(i - 1) : VLt(vals[j], vals[i])
    IN  acts[k]

\* C29: in a depth iteration the deadline did not stop, the root's beta is
\* still +inf at the end, every root action that changes the board was
\* evaluated, in move order, and the move the iteration commits is the first
\* action in move order whose min/max value to that depth is largest.
C29_RootEvaluatesAllKeepsFirstBest ==
    /\ []((pc = "iterend" /\ ~obs.iterAborted /\ fm.actions # <<>>)
             => /\ fm.beta = PosInf
                /\ Len(obs.iterVals) = Len(ChangingActions)
                /\ \A k \in 1..Len(obs.iterVals) :
                      obs.iterVals[k][1] = ChangingActions[k]
                /\ fm.depthMove = FirstBest(fm.depth))
    /\ [][(pc = "iterend" /\ ~obs.iterAborted /\ fm.actions # <<>>)
            => _move' = fm.depthMove]_vars

\* C29 witness: an iteration of depth 2 or more ran to its end over two or
\* more root actions, and the value minPlayer returned for a later one is
\* not its min/max value (the root's alpha cut its evaluation short).
C29_Witness ==
    /\ pc = "iterend" /\ ~obs.iterAborted /\ fm.depth >= 2
    /\ Len(obs.iterVals) >= 2 /\ fm.depthMove = FirstBest(fm.depth)
    /\ \E k \in 2..Len(obs.iterVals) :
          obs.iterVals[k][2]
              # FullValue("min", move(state, obs.iterVals[k][1]), fm.depth - 1)

\* C30: stats() does not divide by zero after a findMove call: whenever
\* findMove has returned, _count > 0 and _parentCount > 0.
C30_StatsDivisorsPositive ==
    pc = "returned" => (_count > 0 /\ _parentCount > 0)

====
